---- MODULE Spec2Model ----
(***************************************************************************)
(* Real-Time Weather Monitoring System: the server of src/unnamed/part_000 *)
(* (lines 1-241) as a state machine.  Temperatures are fixed-point numbers *)
(* in hundredths of a degree (273.15 K is 27315, 35 degrees C is 3500);    *)
(* times are seconds.                                                      *)
(***************************************************************************)
EXTENDS Integers, Sequences, FiniteSets, TLC

\* ------------------------------------------------------------------ bounds
NumCities == 2
MaxTime == 600
MaxOverlap == 3
MaxRequests == 2
MaxReadings == 4
MaxDocs == 3
TickStep == 300

\* ------------------------------------------------------- program constants
cities == <<"Delhi", "Mumbai", "Chennai", "Bangalore", "Kolkata", "Hyderabad">>
alertThreshold == 3500
alertConsecutiveCount == 2
KelvinOffset == 27315
WeatherTTL == 300
ForecastTTL == 1800
PollInterval == 300

Min(a, b) == IF a < b THEN a ELSE b

\* the monitored list, cut to the first NumCities entries
Monitored == SubSeq(cities, 1, Min(NumCities, Len(cities)))
CitySet == {Monitored[i] : i \in 1..Len(Monitored)}

\* ------------------------------------------------ the provider's payloads
\* raw temperatures the provider may report: 35.00 C and 36.00 C in kelvin
RawTemps == {30815, 30915}

\* a well-formed current-conditions body, observed at time t
Payload(raw, t) ==
  [weather |-> <<[main |-> "Clear"]>>,
   main |-> [temp |-> raw, feels_like |-> raw + 100, humidity |-> 40],
   wind |-> [speed |-> 3],
   dt |-> t]

\* lines 60-70: the 'end' handler builds processedData from the parsed body
ProcessedData(city, response) ==
  [city |-> city,
   main |-> response.weather[1].main,
   temp |-> response.main.temp - KelvinOffset,
   feels_like |-> response.main.feels_like - KelvinOffset,
   humidity |-> response.main.humidity,
   wind_speed |-> response.wind.speed,
   dt |-> response.dt]

\* JSON.stringify / JSON.parse of an observation: the text is modelled as the
\* list of the member values in the object's key order
Stringify(o) ==
  <<o.city, o.main, o.temp, o.feels_like, o.humidity, o.wind_speed, o.dt>>
\* a parse that applies the kelvin offset to what it reads
ParseConverting(s) ==
  [city |-> s[1], main |-> s[2], temp |-> s[3] - KelvinOffset,
   feels_like |-> s[4] - KelvinOffset, humidity |-> s[5], wind_speed |-> s[6],
   dt |-> s[7]]

Parse(s) ==
  [city |-> s[1], main |-> s[2], temp |-> s[3], feels_like |-> s[4],
   humidity |-> s[5], wind_speed |-> s[6], dt |-> s[7]]

NoData == [city |-> "", main |-> "", temp |-> 0, feels_like |-> 0,
           humidity |-> 0, wind_speed |-> 0, dt |-> 0]

\* a city name that is not in the list of line 44
Unlisted == "Pune"

\* ------------------------------------------------------------- cache keys
\* fetchWeatherData builds its key from whatever city it is handed (line 47);
\* the forecast handler only from a listed one (lines 206-209)
WeatherKey(city) == <<"weather", city>>
ForecastKey(city) == <<"forecast", city>>
Keys == {WeatherKey(c) : c \in CitySet \cup {Unlisted}}
          \cup {ForecastKey(c) : c \in CitySet}
NoEntry == [val |-> <<>>, exp |-> 0]

VARIABLES
  now,          \* wall clock, seconds since the process started
  nextFire,     \* when the setInterval timer fires next
  alive,        \* the node process is running
  cache,        \* Redis: key -> [val, exp] (NoEntry when absent)
  store,        \* the WeatherData collection, in insertion order
  alertCounts,  \* city -> consecutive count, defined for the cities seen
  sweeps,       \* the timer callbacks started so far, each with its position
  inflight,     \* key -> number of provider calls in flight
  reqs,         \* the /api/forecast requests received so far
  alertLog,     \* history: the direct calls of checkAndSendAlert, in order
  fresh,        \* history: city -> the results of completed miss-fetches
                \* whose 300 s window is still open
  lastRun,      \* history: how the loop body ended for the last city handled
  summary,      \* the last /api/summary request and its reply
  latest,       \* the latest-observation reads made so far, with their replies
  direct,       \* the direct call of fetchWeatherData, with its position
  hist          \* history: city -> the readings fetched and the mails handed
                \* to the notifier by the scheduler

\* the state of the request surface and of the scheduler's history
surface == <<summary, latest, direct, hist>>

vars == <<now, nextFire, alive, cache, store, alertCounts, sweeps, inflight,
          reqs, alertLog, fresh, lastRun, surface>>

\* ------------------------------------------------- the alert state machine
\* a breach test that also counts a reading equal to the threshold
BreachAtOrAbove(temp) == temp >= alertThreshold

\* line 125: the breach test
Breach(temp) == temp > alertThreshold

\* line 126: (alertCounts[city] || 0)
Count(counts, city) == IF city \in DOMAIN counts THEN counts[city] ELSE 0

\* an assignment that reaches every city's entry
SetCountAll(counts, city, n) == [c \in DOMAIN counts \cup {city} |-> n]

\* alertCounts[city] = n
SetCount(counts, city, n) ==
  [c \in DOMAIN counts \cup {city} |-> IF c = city THEN n ELSE counts[c]]

\* what the notifier may do with one message: deliver it, report an error to
\* the sendMail callback, or raise while the message is built or handed over
NotifierOutcomes == {"sent", "failed", "threw"}

\* lines 125-128: the call reaches sendAlertEmail
Notifies(counts, city, temp) ==
  Breach(temp) /\ Count(counts, city) + 1 >= alertConsecutiveCount

\* lines 124-134: alertCounts after checkAndSendAlert(city, temp); when
\* sendAlertEmail raises, line 129 is not reached
checkAndSendAlert(counts, city, temp, outcome) ==
  IF Breach(temp)
    THEN LET n == Count(counts, city) + 1 IN
         IF n >= alertConsecutiveCount
           THEN IF outcome = "threw"
                  THEN SetCount(counts, city, n)
                  ELSE SetCount(counts, city, 0)
           ELSE SetCount(counts, city, n)
    ELSE SetCount(counts, city, 0)

\* ---------------------------------------------------------- initial state
NoFetch == [data |-> NoData, hit |-> FALSE, calls |-> 0, writes |-> 0,
            ttl |-> 0, got |-> "none", expect |-> {}]

NewSweep == [idx |-> 1, pc |-> "fetch", f |-> NoFetch]

NoRun == [fetched |-> FALSE, saved |-> FALSE, evaluated |-> FALSE,
          calls |-> 0]

\* JS numbers as the summary produces them: the finite quotient n/d, or NaN,
\* Infinity, -Infinity; null is what JSON.stringify writes for the last three
Num(n, d) == [k |-> "num", n |-> n, d |-> d]
NaN == [k |-> "NaN", n |-> 0, d |-> 1]
Infinity == [k |-> "Infinity", n |-> 0, d |-> 1]
NegInfinity == [k |-> "-Infinity", n |-> 0, d |-> 1]
Null == [k |-> "null", n |-> 0, d |-> 1]

\* the JS value undefined where a condition string is expected
Undefined == "undefined"

NoValue == [city |-> "", date |-> 0, avgTemp |-> Null, maxTemp |-> Null,
            minTemp |-> Null, dominantWeather |-> Undefined,
            avgHumidity |-> Null, avgWindSpeed |-> Null]

\* no /api/summary request yet
NoSummary == [city |-> "", date |-> "", status |-> 0, upto |-> 0, found |-> 0,
              ret |-> NoValue, body |-> NoValue]

\* no direct call of fetchWeatherData yet
NoCall == [city |-> "", pc |-> "idle", f |-> NoFetch]

\* nothing fetched and no mail handed over yet for a city
NoHist == [n |-> 0, hot |-> 0, mails |-> 0, temp |-> 0]

Init ==
  /\ now = 0
  /\ nextFire = PollInterval
  /\ alive = TRUE
  /\ cache = [k \in Keys |-> NoEntry]
  /\ store = <<>>
  /\ alertCounts = <<>>
  /\ sweeps = <<>>
  /\ inflight = [k \in Keys |-> 0]
  /\ reqs = <<>>
  /\ alertLog = <<>>
  /\ fresh = [c \in CitySet |-> {}]
  /\ lastRun = NoRun
  /\ summary = NoSummary
  /\ latest = <<>>
  /\ direct = NoCall
  /\ hist = [c \in CitySet |-> NoHist]

\* ------------------------------------------------------ the poll scheduler
CityOf(s) == Monitored[sweeps[s].idx]

\* lines 163-171: the loop body ended for the current city (normally or in the
\* catch); the for loop moves on and calls fetchWeatherData for the next city
NextCity(s) ==
  LET i == sweeps[s].idx + 1
  IN [sweeps EXCEPT ![s] =
        [idx |-> i,
         pc |-> IF i > Len(Monitored) THEN "done" ELSE "fetch",
         f |-> NoFetch]]

Run(fetched, saved, evaluated, calls) ==
  [fetched |-> fetched, saved |-> saved, evaluated |-> evaluated,
   calls |-> calls]

\* line 165: fetchWeatherData returned a reading for city
Fetched(h, city, temp) ==
  [h EXCEPT ![city].n = @ + 1,
            ![city].hot = IF temp > alertThreshold THEN @ + 1 ELSE @]

\* line 128: sendAlertEmail(city, temp) is called
Mailed(h, city, temp) ==
  [h EXCEPT ![city].mails = @ + 1, ![city].temp = temp]

\* lines 161-162, 172: the interval timer fires and starts a callback, whatever
\* the earlier callbacks are doing
scheduleFetchWeatherData ==
  /\ alive
  /\ now >= nextFire
  /\ sweeps' = Append(sweeps, NewSweep)
  /\ nextFire' = nextFire + PollInterval
  /\ UNCHANGED <<now, alive, cache, store, alertCounts, inflight, reqs,
                 alertLog, fresh, lastRun, surface>>

\* line 49: a cached, unexpired value
Cached(key) == cache[key] # NoEntry /\ cache[key].exp > now

\* lines 47-54: the cache lookup answers; on a hit the call returns the parsed
\* entry (and line 166 issues the save), on a miss https.get is issued
FetchLookup(s) ==
  /\ alive
  /\ s \in DOMAIN sweeps
  /\ sweeps[s].pc = "fetch"
  /\ LET city == CityOf(s)
         key == WeatherKey(city)
         open == {e.obs : e \in {x \in fresh[city] : x.exp > now}}
     IN \/ /\ Cached(key)
           /\ sweeps' = [sweeps EXCEPT ![s].pc = "save",
                           ![s].f = [NoFetch EXCEPT !.data = Parse(cache[key].val),
                                                    !.hit = TRUE,
                                                    !.expect = open]]
           /\ hist' = Fetched(hist, city, Parse(cache[key].val).temp)
           /\ UNCHANGED inflight
        \/ /\ ~Cached(key)
           /\ sweeps' = [sweeps EXCEPT ![s].pc = "provider",
                           ![s].f = [NoFetch EXCEPT !.calls = 1,
                                                    !.expect = open]]
           /\ inflight' = [inflight EXCEPT ![key] = @ + 1]
           /\ UNCHANGED hist
  /\ UNCHANGED <<now, nextFire, alive, cache, store, alertCounts, reqs,
                 alertLog, fresh, lastRun, summary, latest, direct>>

\* line 48: getAsync rejects; fetchWeatherData rejects and line 168 catches
FetchLookupFails(s) ==
  /\ alive
  /\ s \in DOMAIN sweeps
  /\ sweeps[s].pc = "fetch"
  /\ sweeps' = NextCity(s)
  /\ lastRun' = Run(FALSE, FALSE, FALSE, sweeps[s].f.calls)
  /\ UNCHANGED <<now, nextFire, alive, cache, store, alertCounts, inflight,
                 reqs, alertLog, fresh, surface>>

\* lines 59-71: the response ended with a well-formed body; processedData is
\* built and setAsync is issued
ProviderResponds(s) ==
  /\ alive
  /\ s \in DOMAIN sweeps
  /\ sweeps[s].pc = "provider"
  /\ \E raw \in RawTemps :
       sweeps' = [sweeps EXCEPT ![s].pc = "cacheSet",
                    ![s].f.got = "ok",
                    ![s].f.writes = @ + 1,
                    ![s].f.data = ProcessedData(CityOf(s), Payload(raw, now))]
  /\ inflight' = [inflight EXCEPT ![WeatherKey(CityOf(s))] = @ - 1]
  /\ UNCHANGED <<now, nextFire, alive, cache, store, alertCounts, reqs,
                 alertLog, fresh, lastRun, surface>>

\* a catch block that also clears the city's count
ProviderFailsClearsCount(s) ==
  /\ alive
  /\ s \in DOMAIN sweeps
  /\ sweeps[s].pc = "provider"
  /\ sweeps' = NextCity(s)
  /\ lastRun' = Run(FALSE, FALSE, FALSE, sweeps[s].f.calls)
  /\ inflight' = [inflight EXCEPT ![WeatherKey(CityOf(s))] = @ - 1]
  /\ alertCounts' = SetCount(alertCounts, CityOf(s), 0)
  /\ UNCHANGED <<now, nextFire, alive, cache, store, reqs, alertLog, fresh,
                 surface>>

\* lines 74-76: the request fails; the promise rejects and line 168 catches
ProviderFails(s) ==
  /\ alive
  /\ s \in DOMAIN sweeps
  /\ sweeps[s].pc = "provider"
  /\ sweeps' = NextCity(s)
  /\ lastRun' = Run(FALSE, FALSE, FALSE, sweeps[s].f.calls)
  /\ inflight' = [inflight EXCEPT ![WeatherKey(CityOf(s))] = @ - 1]
  /\ UNCHANGED <<now, nextFire, alive, cache, store, alertCounts, reqs,
                 alertLog, fresh, surface>>

\* lines 59-61, 64: the body does not parse, or weather/main/wind is missing:
\* the async 'end' handler throws.  Its own promise rejects unhandled (which
\* ends the process on runtimes that treat that as fatal), and neither
\* resolve nor reject of line 53 is ever called
ProviderMalformed(s) ==
  /\ alive
  /\ s \in DOMAIN sweeps
  /\ sweeps[s].pc = "provider"
  /\ sweeps' = [sweeps EXCEPT ![s].pc = "hung", ![s].f.got = "malformed"]
  /\ inflight' = [inflight EXCEPT ![WeatherKey(CityOf(s))] = @ - 1]
  /\ alive' \in BOOLEAN
  /\ UNCHANGED <<now, nextFire, cache, store, alertCounts, reqs, alertLog,
                 fresh, lastRun, surface>>

\* the forecast's expiry given to setAsync for a current observation
WeatherExpiryOfForecast == ForecastTTL

\* line 71: the expiry given to setAsync for a current observation
WeatherExpiry == WeatherTTL

\* lines 71-72, 166: the cache write is done, the promise resolves with
\* processedData and the save is issued
CacheSetDone(s) ==
  /\ alive
  /\ s \in DOMAIN sweeps
  /\ sweeps[s].pc = "cacheSet"
  /\ LET city == CityOf(s)
         data == sweeps[s].f.data
     IN /\ cache' = [cache EXCEPT ![WeatherKey(city)] =
                       [val |-> Stringify(data), exp |-> now + WeatherExpiry]]
        /\ fresh' = [fresh EXCEPT ![city] =
                       @ \cup {[obs |-> data, exp |-> now + WeatherTTL]}]
        /\ sweeps' = [sweeps EXCEPT ![s].pc = "save",
                                    ![s].f.ttl = cache'[WeatherKey(city)].exp - now]
        /\ hist' = Fetched(hist, city, data.temp)
  /\ UNCHANGED <<now, nextFire, alive, store, alertCounts, inflight, reqs,
                 alertLog, lastRun, summary, latest, direct>>

\* line 71: setAsync rejects inside the async 'end' handler: as for a
\* malformed body, the promise of line 53 is never settled
CacheSetFails(s) ==
  /\ alive
  /\ s \in DOMAIN sweeps
  /\ sweeps[s].pc = "cacheSet"
  /\ sweeps' = [sweeps EXCEPT ![s].pc = "hung"]
  /\ alive' \in BOOLEAN
  /\ UNCHANGED <<now, nextFire, cache, store, alertCounts, inflight, reqs,
                 alertLog, fresh, lastRun, surface>>

\* lines 80-84: the document built for an observation
Document(data) ==
  [city |-> data.city, main |-> data.main, temp |-> data.temp,
   feels_like |-> data.feels_like, humidity |-> data.humidity,
   wind_speed |-> data.wind_speed, dt |-> data.dt, date |-> data.dt * 1000]

\* lines 166-167, 80-86, 124-134: the save is done; checkAndSendAlert then runs
\* to its end in the same turn (it awaits nothing), its rejection is caught at
\* line 168, and the loop moves on
saveWeatherData(s) ==
  /\ alive
  /\ s \in DOMAIN sweeps
  /\ sweeps[s].pc = "save"
  /\ store' = Append(store, Document(sweeps[s].f.data))
  /\ \E outcome \in NotifierOutcomes :
       alertCounts' = checkAndSendAlert(alertCounts, CityOf(s),
                                        sweeps[s].f.data.temp, outcome)
  /\ hist' = IF Notifies(alertCounts, CityOf(s), sweeps[s].f.data.temp)
               THEN Mailed(hist, CityOf(s), sweeps[s].f.data.temp)
               ELSE hist
  /\ sweeps' = NextCity(s)
  /\ lastRun' = Run(TRUE, TRUE, TRUE, sweeps[s].f.calls)
  /\ UNCHANGED <<now, nextFire, alive, cache, inflight, reqs, alertLog, fresh,
                 summary, latest, direct>>

\* line 85: the save rejects; line 168 catches and line 167 is skipped
SaveFails(s) ==
  /\ alive
  /\ s \in DOMAIN sweeps
  /\ sweeps[s].pc = "save"
  /\ sweeps' = NextCity(s)
  /\ lastRun' = Run(TRUE, FALSE, FALSE, sweeps[s].f.calls)
  /\ UNCHANGED <<now, nextFire, alive, cache, store, alertCounts, inflight,
                 reqs, alertLog, fresh, surface>>

\* any step of sweep s
SweepStep(s) ==
  \/ FetchLookup(s)
  \/ FetchLookupFails(s)
  \/ ProviderResponds(s)
  \/ ProviderFails(s)
  \/ ProviderMalformed(s)
  \/ CacheSetDone(s)
  \/ CacheSetFails(s)
  \/ saveWeatherData(s)
  \/ SaveFails(s)

\* ------------------------------------------------------------------- time
\* Redis drops the entries whose expiry has passed
Expire(c, t) == [k \in Keys |-> IF c[k].exp > t THEN c[k] ELSE NoEntry]

\* the clock advances (a due timer fires first)
Tick ==
  /\ alive
  /\ now < nextFire
  /\ now' = now + TickStep
  /\ cache' = Expire(cache, now')
  /\ fresh' = [c \in CitySet |-> {e \in fresh[c] : e.exp > now'}]
  /\ UNCHANGED <<nextFire, alive, store, alertCounts, sweeps, inflight, reqs,
                 alertLog, lastRun, surface>>

\* the scheduler, observed until the clock reads MaxTime
SchedulerNext ==
  \/ scheduleFetchWeatherData
  \/ \E s \in 1..(MaxTime \div PollInterval) : SweepStep(s)
  \/ now < MaxTime /\ Tick

SchedulerSpec == Init /\ [][SchedulerNext]_vars

\* the fetches of the scheduler while the store has not answered yet and
\* nothing fails, observed until MaxOverlap callbacks have started
CacheNext ==
  \/ Len(sweeps) < MaxOverlap /\ scheduleFetchWeatherData
  \/ \E s \in 1..MaxOverlap :
       \/ FetchLookup(s)
       \/ ProviderResponds(s)
       \/ CacheSetDone(s)
  \/ Len(sweeps) < MaxOverlap /\ Tick

CacheSpec == Init /\ [][CacheNext]_vars

\* ------------------------------------------------ GET /api/forecast/:city
\* the parsed forecast body of the provider, and its JSON text
ForecastBody(city, t) == [city |-> city, list |-> <<t>>]
StringifyForecast(o) == <<o.city, o.list>>
ParseForecast(text) == [city |-> text[1], list |-> text[2]]

NoBody == [city |-> "", list |-> <<>>]

Respond(r, status, body) ==
  [reqs EXCEPT ![r].pc = "done", ![r].status = status, ![r].body = body]

\* lines 203-210: a request arrives; an unlisted city is answered 400, for a
\* listed one getAsync is issued
ForecastRequest ==
  /\ alive
  /\ Len(reqs) < MaxRequests
  /\ \E city \in CitySet \cup {Unlisted} :
       reqs' = Append(reqs,
         IF city \in CitySet
           THEN [city |-> city, pc |-> "lookup", status |-> 0, body |-> NoBody]
           ELSE [city |-> city, pc |-> "done", status |-> 400, body |-> NoBody])
  /\ UNCHANGED <<now, nextFire, alive, cache, store, alertCounts, sweeps,
                 inflight, alertLog, fresh, lastRun, surface>>

\* lines 210-215: the lookup answers; a hit is sent back, a miss issues
\* https.get
ForecastLookup(r) ==
  /\ alive
  /\ r \in DOMAIN reqs
  /\ reqs[r].pc = "lookup"
  /\ LET key == ForecastKey(reqs[r].city)
     IN \/ /\ Cached(key)
           /\ reqs' = Respond(r, 200, ParseForecast(cache[key].val))
           /\ UNCHANGED inflight
        \/ /\ ~Cached(key)
           /\ reqs' = [reqs EXCEPT ![r].pc = "provider"]
           /\ inflight' = [inflight EXCEPT ![key] = @ + 1]
  /\ UNCHANGED <<now, nextFire, alive, cache, store, alertCounts, sweeps,
                 alertLog, fresh, lastRun, surface>>

\* lines 210, 229-231: getAsync rejects; the handler answers 500
ForecastLookupFails(r) ==
  /\ alive
  /\ r \in DOMAIN reqs
  /\ reqs[r].pc = "lookup"
  /\ reqs' = Respond(r, 500, NoBody)
  /\ UNCHANGED <<now, nextFire, alive, cache, store, alertCounts, sweeps,
                 inflight, alertLog, fresh, lastRun, surface>>

\* lines 220-222, 227: the body is parsed, the promise resolves and setAsync
\* is issued
ForecastResponds(r) ==
  /\ alive
  /\ r \in DOMAIN reqs
  /\ reqs[r].pc = "provider"
  /\ reqs' = [reqs EXCEPT ![r].pc = "cacheSet",
                ![r].body = ParseForecast(
                              StringifyForecast(ForecastBody(reqs[r].city, now)))]
  /\ inflight' = [inflight EXCEPT ![ForecastKey(reqs[r].city)] = @ - 1]
  /\ UNCHANGED <<now, nextFire, alive, cache, store, alertCounts, sweeps,
                 alertLog, fresh, lastRun, surface>>

\* lines 223-225, 229-231: the request fails; the handler answers 500
ForecastProviderFails(r) ==
  /\ alive
  /\ r \in DOMAIN reqs
  /\ reqs[r].pc = "provider"
  /\ reqs' = Respond(r, 500, NoBody)
  /\ inflight' = [inflight EXCEPT ![ForecastKey(reqs[r].city)] = @ - 1]
  /\ UNCHANGED <<now, nextFire, alive, cache, store, alertCounts, sweeps,
                 alertLog, fresh, lastRun, surface>>

\* lines 220-222: the body does not parse; the throw leaves the 'end' listener
\* uncaught and ends the process
ForecastMalformed(r) ==
  /\ alive
  /\ r \in DOMAIN reqs
  /\ reqs[r].pc = "provider"
  /\ reqs' = [reqs EXCEPT ![r].pc = "hung"]
  /\ inflight' = [inflight EXCEPT ![ForecastKey(reqs[r].city)] = @ - 1]
  /\ alive' = FALSE
  /\ UNCHANGED <<now, nextFire, cache, store, alertCounts, sweeps, alertLog,
                 fresh, lastRun, surface>>

\* lines 227-228: the cache write is done and the forecast is sent back
ForecastCacheSet(r) ==
  /\ alive
  /\ r \in DOMAIN reqs
  /\ reqs[r].pc = "cacheSet"
  /\ cache' = [cache EXCEPT ![ForecastKey(reqs[r].city)] =
                 [val |-> StringifyForecast(reqs[r].body),
                  exp |-> now + ForecastTTL]]
  /\ reqs' = Respond(r, 200, reqs[r].body)
  /\ UNCHANGED <<now, nextFire, alive, store, alertCounts, sweeps, inflight,
                 alertLog, fresh, lastRun, surface>>

\* lines 227, 229-231: setAsync rejects; the handler answers 500
ForecastCacheSetFails(r) ==
  /\ alive
  /\ r \in DOMAIN reqs
  /\ reqs[r].pc = "cacheSet"
  /\ reqs' = Respond(r, 500, NoBody)
  /\ UNCHANGED <<now, nextFire, alive, cache, store, alertCounts, sweeps,
                 inflight, alertLog, fresh, lastRun, surface>>

\* the request handlers, observed for MaxRequests requests
ApiNext ==
  \/ ForecastRequest
  \/ \E r \in 1..MaxRequests :
       \/ ForecastLookup(r)
       \/ ForecastLookupFails(r)
       \/ ForecastResponds(r)
       \/ ForecastProviderFails(r)
       \/ ForecastMalformed(r)
       \/ ForecastCacheSet(r)
       \/ ForecastCacheSetFails(r)
  \/ now < MaxTime /\ Tick

ApiSpec == Init /\ [][ApiNext]_vars

\* ------------------------------------- direct calls of checkAndSendAlert
\* the readings a caller passes: 10, 35, 36 and 37 degrees
Readings == {1000, 3500, 3600, 3700}

\* src/test-cases.js lines 39-40: a caller awaits checkAndSendAlert(city, temp)
Observe ==
  /\ Len(alertLog) < MaxReadings
  /\ \E city \in CitySet, temp \in Readings, outcome \in NotifierOutcomes :
       /\ alertCounts' = checkAndSendAlert(alertCounts, city, temp, outcome)
       /\ alertLog' = Append(alertLog,
            [city |-> city, temp |-> temp,
             alert |-> Notifies(alertCounts, city, temp),
             outcome |-> IF Notifies(alertCounts, city, temp)
                           THEN outcome ELSE "none",
             after |-> Count(alertCounts', city)])
  /\ UNCHANGED <<now, nextFire, alive, cache, store, sweeps, inflight, reqs,
                 fresh, lastRun, surface>>

AlertNext == Observe

AlertSpec == Init /\ [][AlertNext]_vars

\* ------------------------------------- direct calls of fetchWeatherData
\* src/test-cases.js lines 8, 23: a caller awaits fetchWeatherData(city);
\* line 46 takes any city name
DirectCall ==
  /\ alive
  /\ direct.pc = "idle"
  /\ \E city \in CitySet \cup {Unlisted} :
       direct' = [city |-> city, pc |-> "fetch", f |-> NoFetch]
  /\ UNCHANGED <<now, nextFire, alive, cache, store, alertCounts, sweeps,
                 inflight, reqs, alertLog, fresh, lastRun, summary, latest,
                 hist>>

\* lines 47-54: the lookup answers; a hit is returned, a miss issues https.get
DirectLookup ==
  /\ alive
  /\ direct.pc = "fetch"
  /\ LET key == WeatherKey(direct.city)
     IN \/ /\ Cached(key)
           /\ direct' = [direct EXCEPT !.pc = "returned",
                           !.f.data = Parse(cache[key].val), !.f.hit = TRUE]
           /\ UNCHANGED inflight
        \/ /\ ~Cached(key)
           /\ direct' = [direct EXCEPT !.pc = "provider", !.f.calls = 1]
           /\ inflight' = [inflight EXCEPT ![key] = @ + 1]
  /\ UNCHANGED <<now, nextFire, alive, cache, store, alertCounts, sweeps,
                 reqs, alertLog, fresh, lastRun, summary, latest, hist>>

\* line 48: getAsync rejects and so does the call
DirectLookupFails ==
  /\ alive
  /\ direct.pc = "fetch"
  /\ direct' = [direct EXCEPT !.pc = "rejected"]
  /\ UNCHANGED <<now, nextFire, alive, cache, store, alertCounts, sweeps,
                 inflight, reqs, alertLog, fresh, lastRun, summary, latest,
                 hist>>

\* lines 59-71: a well-formed body arrives; setAsync is issued
DirectResponds ==
  /\ alive
  /\ direct.pc = "provider"
  /\ \E raw \in RawTemps :
       direct' = [direct EXCEPT !.pc = "cacheSet", !.f.got = "ok",
                    !.f.writes = @ + 1,
                    !.f.data = ProcessedData(direct.city, Payload(raw, now))]
  /\ inflight' = [inflight EXCEPT ![WeatherKey(direct.city)] = @ - 1]
  /\ UNCHANGED <<now, nextFire, alive, cache, store, alertCounts, sweeps,
                 reqs, alertLog, fresh, lastRun, summary, latest, hist>>

\* lines 74-76: the request fails and the call rejects
DirectFails ==
  /\ alive
  /\ direct.pc = "provider"
  /\ direct' = [direct EXCEPT !.pc = "rejected"]
  /\ inflight' = [inflight EXCEPT ![WeatherKey(direct.city)] = @ - 1]
  /\ UNCHANGED <<now, nextFire, alive, cache, store, alertCounts, sweeps,
                 reqs, alertLog, fresh, lastRun, summary, latest, hist>>

\* lines 59-61, 64: the body is malformed; the call never settles
DirectMalformed ==
  /\ alive
  /\ direct.pc = "provider"
  /\ direct' = [direct EXCEPT !.pc = "hung", !.f.got = "malformed"]
  /\ inflight' = [inflight EXCEPT ![WeatherKey(direct.city)] = @ - 1]
  /\ alive' \in BOOLEAN
  /\ UNCHANGED <<now, nextFire, cache, store, alertCounts, sweeps, reqs,
                 alertLog, fresh, lastRun, summary, latest, hist>>

\* lines 71-72: the cache write is done and the call returns processedData
DirectCacheSet ==
  /\ alive
  /\ direct.pc = "cacheSet"
  /\ cache' = [cache EXCEPT ![WeatherKey(direct.city)] =
                 [val |-> Stringify(direct.f.data), exp |-> now + WeatherExpiry]]
  /\ fresh' = [c \in CitySet |->
                 IF c = direct.city
                   THEN fresh[c] \cup {[obs |-> direct.f.data,
                                        exp |-> now + WeatherTTL]}
                   ELSE fresh[c]]
  /\ direct' = [direct EXCEPT !.pc = "returned", !.f.ttl = WeatherExpiry]
  /\ UNCHANGED <<now, nextFire, alive, store, alertCounts, sweeps, inflight,
                 reqs, alertLog, lastRun, summary, latest, hist>>

\* line 71: setAsync rejects inside the async 'end' handler; the call never
\* settles
DirectCacheSetFails ==
  /\ alive
  /\ direct.pc = "cacheSet"
  /\ direct' = [direct EXCEPT !.pc = "hung"]
  /\ alive' \in BOOLEAN
  /\ UNCHANGED <<now, nextFire, cache, store, alertCounts, sweeps, inflight,
                 reqs, alertLog, fresh, lastRun, summary, latest, hist>>

\* any step of the direct call
DirectStep ==
  \/ DirectLookup
  \/ DirectLookupFails
  \/ DirectResponds
  \/ DirectFails
  \/ DirectMalformed
  \/ DirectCacheSet
  \/ DirectCacheSetFails

\* --------------------------------------------------- GET /api/weather/:city
NoDoc == Document(NoData)

\* line 183: findOne({ city }).sort({ dt: -1 }): a document of the city with
\* the greatest dt
Latest(docs, city) ==
  {i \in 1..Len(docs) :
     /\ docs[i].city = city
     /\ \A j \in 1..Len(docs) : docs[j].city = city => docs[j].dt <= docs[i].dt}

\* lines 177-188: an unlisted city is answered 400 before the query; else the
\* latest document (null when there is none) is sent back, or 500 when the
\* query rejects
WeatherRequest ==
  /\ alive
  /\ Len(latest) < MaxRequests
  /\ \E city \in CitySet \cup {Unlisted}, queryFails \in BOOLEAN :
       LET answer(status, queried, found, doc) ==
             [city |-> city, at |-> now, status |-> status,
              queried |-> queried, found |-> found, doc |-> doc]
       IN IF city \notin CitySet
            THEN latest' = Append(latest, answer(400, FALSE, FALSE, NoDoc))
          ELSE IF queryFails
            THEN latest' = Append(latest, answer(500, TRUE, FALSE, NoDoc))
          ELSE IF Latest(store, city) = {}
            THEN latest' = Append(latest, answer(200, TRUE, FALSE, NoDoc))
          ELSE \E i \in Latest(store, city) :
                 latest' = Append(latest, answer(200, TRUE, TRUE, store[i]))
  /\ UNCHANGED <<now, nextFire, alive, cache, store, alertCounts, sweeps,
                 inflight, reqs, alertLog, fresh, lastRun, summary, direct,
                 hist>>

\* one direct call of fetchWeatherData and the /api/weather requests
FetchNext ==
  \/ DirectCall
  \/ DirectStep
  \/ WeatherRequest
  \/ now < MaxTime /\ Tick

FetchSpec == Init /\ [][FetchNext]_vars

\* the scheduler when nothing fails, with the /api/weather requests, observed
\* until the clock reads MaxTime; a due timer fires before a request is served
PollNext ==
  \/ scheduleFetchWeatherData
  \/ \E s \in 1..(MaxTime \div PollInterval) :
       \/ FetchLookup(s)
       \/ ProviderResponds(s)
       \/ CacheSetDone(s)
       \/ saveWeatherData(s)
  \/ now < nextFire /\ WeatherRequest
  \/ now < MaxTime /\ Tick

PollSpec == Init /\ [][PollNext]_vars

\* ------------------------------------------------------ the daily summary
DayMs == 24 * 60 * 60 * 1000

\* the observations a caller saves: three conditions, each for every listed
\* city, at the last second of the first day and the first second of the next
Conditions ==
  {[main |-> "Clear", temp |-> 3600, humidity |-> 40, wind_speed |-> 3],
   [main |-> "Rain", temp |-> 1000, humidity |-> 90, wind_speed |-> 7],
   [main |-> "Clouds", temp |-> -1000, humidity |-> 65, wind_speed |-> 4]}
SampleTimes == {DayMs \div 1000 - 1, DayMs \div 1000}
Samples ==
  {[city |-> c, main |-> w.main, temp |-> w.temp, feels_like |-> w.temp + 100,
    humidity |-> w.humidity, wind_speed |-> w.wind_speed, dt |-> t] :
     c \in CitySet, w \in Conditions, t \in SampleTimes}

\* lines 80-86: saveWeatherData(data) called with an observation, the save
\* succeeding
SaveObservation ==
  /\ alive
  /\ Len(store) < MaxDocs
  /\ \E data \in Samples : store' = Append(store, Document(data))
  /\ UNCHANGED <<now, nextFire, alive, cache, alertCounts, sweeps, inflight,
                 reqs, alertLog, fresh, lastRun, surface>>

\* the :date strings a client sends, and one that fails the pattern of line 193
Dates == {"1970-01-01", "1970-01-02"}
BadDate == "today"

\* line 196: new Date(date) of a YYYY-MM-DD string, in milliseconds
NewDate(date) == IF date = "1970-01-01" THEN 0 ELSE DayMs

\* lines 89-92: setHours(0, 0, 0, 0) and setHours(23, 59, 59, 999) of an
\* instant; the model's clock is the process's local time
StartOfDay(date) == date - (date % DayMs)
EndOfDay(date) == StartOfDay(date) + DayMs - 1

\* a query that matches the day's documents of every city
InWindowAnyCity(d, city, date) ==
  d.date >= StartOfDay(date) /\ d.date <= EndOfDay(date)

\* lines 94-97: the query of WeatherData.find
InWindow(d, city, date) ==
  d.city = city /\ d.date >= StartOfDay(date) /\ d.date <= EndOfDay(date)

Find(docs, city, date) == SelectSeq(docs, LAMBDA d : InWindow(d, city, date))

\* lines 105, 109, 110: reduce((a, b) => a + b, 0)
RECURSIVE Reduce(_, _)
Reduce(s, k) == IF k = 0 THEN 0 ELSE Reduce(s, k - 1) + s[k]

\* lines 105, 109, 110: a / b for a length b
Divide(a, b) ==
  IF b # 0 THEN Num(a, b)
  ELSE IF a = 0 THEN NaN ELSE IF a > 0 THEN Infinity ELSE NegInfinity

\* lines 106-107: Math.max(...s) and Math.min(...s)
RECURSIVE Greatest(_, _)
Greatest(s, k) ==
  IF k = 1 THEN s[1]
  ELSE IF s[k] > Greatest(s, k - 1) THEN s[k] ELSE Greatest(s, k - 1)
RECURSIVE Least(_, _)
Least(s, k) ==
  IF k = 1 THEN s[1]
  ELSE IF s[k] < Least(s, k - 1) THEN s[k] ELSE Least(s, k - 1)
MathMax(s) == IF Len(s) = 0 THEN NegInfinity ELSE Num(Greatest(s, Len(s)), 1)
MathMin(s) == IF Len(s) = 0 THEN Infinity ELSE Num(Least(s, Len(s)), 1)

\* line 116: arr.filter(v => v === a).length
Occurrences(arr, a) == Cardinality({i \in 1..Len(arr) : arr[i] = a})

\* a comparator that orders by descending number of occurrences
CompareDescending(arr, a, b) == Occurrences(arr, b) - Occurrences(arr, a)

\* lines 115-116: the comparator given to sort
Compare(arr, a, b) == Occurrences(arr, a) - Occurrences(arr, b)

\* line 115: Array.prototype.sort is stable: an element goes behind every
\* element already placed that does not compare greater
RECURSIVE InsertSorted(_, _, _)
InsertSorted(arr, s, x) ==
  IF Len(s) = 0 THEN <<x>>
  ELSE IF Compare(arr, s[Len(s)], x) <= 0 THEN Append(s, x)
  ELSE Append(InsertSorted(arr, SubSeq(s, 1, Len(s) - 1), x), s[Len(s)])

\* the first k elements of arr, sorted
RECURSIVE Sort(_, _)
Sort(arr, k) ==
  IF k = 0 THEN <<>> ELSE InsertSorted(arr, Sort(arr, k - 1), arr[k])

\* line 117: pop() of the sorted array
Pop(s) == IF Len(s) = 0 THEN Undefined ELSE s[Len(s)]

\* lines 114-118
getMostFrequent(arr) == Pop(Sort(arr, Len(arr)))

\* lines 88-112: the summary over the collection docs
calculateDailySummary(docs, city, date) ==
  LET data == Find(docs, city, date)
      temperatures == [i \in 1..Len(data) |-> data[i].temp]
      weatherConditions == [i \in 1..Len(data) |-> data[i].main]
      humidities == [i \in 1..Len(data) |-> data[i].humidity]
      windSpeeds == [i \in 1..Len(data) |-> data[i].wind_speed]
  IN [city |-> city,
      date |-> StartOfDay(date),
      avgTemp |-> Divide(Reduce(temperatures, Len(temperatures)),
                         Len(temperatures)),
      maxTemp |-> MathMax(temperatures),
      minTemp |-> MathMin(temperatures),
      dominantWeather |-> getMostFrequent(weatherConditions),
      avgHumidity |-> Divide(Reduce(humidities, Len(data)), Len(data)),
      avgWindSpeed |-> Divide(Reduce(windSpeeds, Len(data)), Len(data))]

\* line 197: res.json writes null for NaN and the infinities
JsonNumber(v) == IF v.k = "num" THEN v ELSE Null
Json(s) ==
  [s EXCEPT !.avgTemp = JsonNumber(@), !.maxTemp = JsonNumber(@),
            !.minTemp = JsonNumber(@), !.avgHumidity = JsonNumber(@),
            !.avgWindSpeed = JsonNumber(@)]

\* lines 190-201: GET /api/summary/:city/:date; an unlisted city or a date
\* that fails the pattern is answered 400, a rejected query 500, and anything
\* calculateDailySummary returns is sent back
SummaryRequest ==
  /\ alive
  /\ \E city \in CitySet \cup {Unlisted}, date \in Dates \cup {BadDate},
        queryFails \in BOOLEAN :
       LET ret == calculateDailySummary(store, city, NewDate(date))
           found == Len(Find(store, city, NewDate(date)))
           answer(status, n, value) ==
             [city |-> city, date |-> date, status |-> status,
              upto |-> Len(store), found |-> n, ret |-> value,
              body |-> Json(value)]
       IN summary' =
            IF city \notin CitySet \/ date = BadDate
              THEN answer(400, 0, NoValue)
            ELSE IF queryFails THEN answer(500, 0, NoValue)
            ELSE answer(200, found, ret)
  /\ UNCHANGED <<now, nextFire, alive, cache, store, alertCounts, sweeps,
                 inflight, reqs, alertLog, fresh, lastRun, latest, direct, hist>>

\* the aggregator over a collection of up to MaxDocs saved observations,
\* observed until the first request is answered (a reply depends neither on
\* earlier replies nor on what is saved after it)
SummaryNext ==
  \/ summary = NoSummary /\ SaveObservation
  \/ summary = NoSummary /\ SummaryRequest

SummarySpec == Init /\ [][SummaryNext]_vars
Next == SchedulerNext \/ ApiNext

Spec == Init /\ [][Next]_vars

\* ================================================================ claims
\* the calls of checkAndSendAlert for one city, in order
CityLog(c) == SelectSeq(alertLog, LAMBDA e : e.city = c)

\* the number of unbroken above-35 readings ending with L[i], counted since
\* the last Alert or the last reading at or below 35
RECURSIVE Streak(_, _)
Streak(L, i) ==
  IF i = 0 \/ L[i].temp <= 3500 THEN 0
  ELSE IF i = 1 \/ L[i - 1].alert THEN 1
  ELSE 1 + Streak(L, i - 1)

\* C1: for the readings passed for one location, starting from an empty
\* counter, a call invokes the notifier if and only if its reading is above
\* 35 and makes the unbroken run of such readings since the last Alert or
\* the last reading at or below 35 reach 2; right after an Alert the count
\* is 0.  (Stated as the claim has it; the code breaks it when the notifier
\* raises, see C10.)
C1_AlertOnSecondBreach ==
  \A c \in CitySet :
    LET L == CityLog(c) IN
    \A i \in 1..Len(L) :
      /\ L[i].alert <=> (L[i].temp > 3500 /\ Streak(L, i) = 2)
      /\ L[i].alert => L[i].after = 0

\* C2: a reading at or below 35 (35 itself included) sets the location's
\* count to 0 and emits no Alert, whatever the count was; so the readings
\* 36, 10, 36 from an empty counter emit no Alert at all.
C2_AtOrBelowResets ==
  /\ \A i \in 1..Len(alertLog) :
       alertLog[i].temp <= 3500 =>
         ~alertLog[i].alert /\ alertLog[i].after = 0
  /\ \A c \in CitySet :
       LET L == CityLog(c) IN
       (Len(L) >= 3 /\ L[1].temp = 3600 /\ L[2].temp = 1000 /\ L[3].temp = 3600)
         => (~L[1].alert /\ ~L[2].alert /\ ~L[3].alert)

\* C2's case: the readings 36, 10, 36 were passed for one location, and a
\* reading of exactly 35 met a count that was not 0
C2_Witness ==
  /\ \E c \in CitySet :
       LET L == CityLog(c) IN
       Len(L) >= 3 /\ L[1].temp = 3600 /\ L[2].temp = 1000 /\ L[3].temp = 3600
  /\ \E c \in CitySet :
       LET L == CityLog(c) IN
       \E i \in 2..Len(L) : L[i].temp = 3500 /\ L[i - 1].after > 0

\* the promise of the fetchWeatherData call of sweep s is not settled
Pending(s) == sweeps[s].pc \in {"fetch", "provider", "cacheSet", "hung"}

\* C3: when the pipeline of a location fails at any step, the locations after
\* it are still processed in the same sweep and the scheduler keeps running:
\* the process stays up, and a sweep with locations left can take a step.
C3_SweepIsolation ==
  /\ alive
  /\ \A s \in DOMAIN sweeps :
       sweeps[s].idx <= Len(Monitored) => ENABLED SweepStep(s)

\* C4: a fetch that received a malformed payload fails towards its caller
\* rather than never settling, and writes nothing to the cache: it is settled,
\* or a step that settles it is still to come, and it issued no cache write.
C4_MalformedRejects ==
  \A s \in DOMAIN sweeps :
    sweeps[s].f.got = "malformed" =>
      /\ ~Pending(s) \/ (alive /\ ENABLED SweepStep(s))
      /\ sweeps[s].f.writes = 0

\* C5: a fetch that finds an unexpired entry under weather:<location> returns
\* that entry with no provider call and no cache write; a fetch that misses
\* and gets a good response made exactly one provider call and exactly one
\* cache write, expiring 300 seconds later.
C5_CacheAside ==
  [][\A s \in DOMAIN sweeps :
       LET key == WeatherKey(CityOf(s)) IN
       /\ (sweeps[s].pc = "fetch" /\ sweeps'[s].pc = "save") =>
            /\ cache[key] # NoEntry /\ cache[key].exp > now
            /\ sweeps'[s].f.data = Parse(cache[key].val)
            /\ sweeps'[s].f.calls = 0 /\ sweeps'[s].f.writes = 0
            /\ cache' = cache /\ inflight' = inflight
       /\ (sweeps[s].pc = "cacheSet" /\ sweeps'[s].pc = "save") =>
            /\ sweeps'[s].f.calls = 1 /\ sweeps'[s].f.writes = 1
            /\ cache'[key] = [val |-> Stringify(sweeps[s].f.data),
                              exp |-> now + 300]
            /\ \A k \in Keys \ {key} : cache'[k] = cache[k]
       /\ (sweeps[s].pc = "fetch" /\ sweeps'[s].pc = "provider") =>
            /\ cache[key] = NoEntry \/ cache[key].exp <= now
            /\ inflight'[key] = inflight[key] + 1
            /\ cache' = cache]_vars

\* C5's case: one fetch returned a cached entry while another, which had
\* missed, has written the cache and resolved
C5_Witness ==
  \E s, t \in DOMAIN sweeps :
    /\ sweeps[s].pc = "save" /\ sweeps[s].f.hit
    /\ sweeps[t].pc = "save" /\ ~sweeps[t].f.hit /\ sweeps[t].f.ttl = 300

\* C6: after a fetch that missed and succeeded, a fetch for the same location
\* issued before the 300 second expiry returns an equal observation without a
\* provider call, and a fetch issued after the expiry calls the provider.
\* (Stated as the claim has it; the code breaks it when two fetches for one
\* key are in flight together, see C9.)
C6_RoundTrip ==
  \A s \in DOMAIN sweeps :
    sweeps[s].pc \in {"provider", "cacheSet", "save"} =>
      /\ \A o \in sweeps[s].f.expect :
           sweeps[s].f.hit /\ sweeps[s].f.calls = 0 /\ sweeps[s].f.data = o
      /\ sweeps[s].f.expect = {} => (~sweeps[s].f.hit /\ sweeps[s].f.calls = 1)

\* C7: every reading a fetch returned is passed to alert evaluation, also when
\* the persist step fails.
C7_EveryReadingEvaluated == lastRun.fetched => lastRun.evaluated

\* C8: at most one sweep is in progress at any moment.
C8_NoOverlap ==
  Cardinality({s \in DOMAIN sweeps : sweeps[s].pc # "done"}) <= 1

\* C9: at most one provider call is in flight per cache key.
C9_SingleFlight == \A k \in Keys : inflight[k] <= 1

\* C10: a notifier failure, reported by the callback or raised, leaves the
\* location's count at 0 and is not retried: the next call for the location
\* emits no Alert.
C10_NotifierFailureResets ==
  \A c \in CitySet :
    LET L == CityLog(c) IN
    \A i \in 1..Len(L) :
      (L[i].alert /\ L[i].outcome \in {"failed", "threw"}) =>
        /\ L[i].after = 0
        /\ i < Len(L) => ~L[i + 1].alert

\* the documents of the collection, as it was when the last summary query
\* ran, that belong to the requested city and day
SummaryWindow ==
  LET first == IF summary.date = "1970-01-01" THEN 0 ELSE 86400000
  IN {i \in 1..summary.upto :
        /\ store[i].city = summary.city
        /\ store[i].date >= first
        /\ store[i].date <= first + 86399999}

\* the sum of f[i] over the indices in S
RECURSIVE Total(_, _)
Total(S, f) ==
  IF S = {} THEN 0
  ELSE LET i == CHOOSE j \in S : TRUE IN f[i] + Total(S \ {i}, f)

\* C11: a summary asked for a location and day with no stored observation
\* fails (NoDataForWindow) instead of returning a summary, and no returned
\* summary carries NaN or an infinity as an average, minimum or maximum.
C11_EmptyWindowFails ==
  /\ (summary.city \in CitySet /\ summary.date \in Dates /\ SummaryWindow = {})
       => summary.status # 200
  /\ summary.status = 200 =>
       \A v \in {summary.ret.avgTemp, summary.ret.minTemp, summary.ret.maxTemp,
                 summary.ret.avgHumidity, summary.ret.avgWindSpeed} :
         v.k = "num"

\* C12: a fetch for a location outside the monitored list fails
\* (InvalidLocation) before any cache lookup, provider call or cache write,
\* and a latest-observation request for such a location is refused before
\* the collection is queried.
C12_InvalidLocation ==
  /\ (direct.pc # "idle" /\ direct.city \notin CitySet) =>
       /\ direct.pc = "rejected"
       /\ direct.f.calls = 0 /\ direct.f.writes = 0
       /\ cache[WeatherKey(direct.city)] = NoEntry
  /\ \A i \in 1..Len(latest) :
       latest[i].city \notin CitySet =>
         latest[i].status = 400 /\ ~latest[i].queried

C14_MailEverySecondSweep ==
  \A c \in CitySet :
    (\A s \in DOMAIN sweeps : ~(sweeps[s].pc = "save" /\ CityOf(s) = c)) =>
      /\ hist[c].hot = hist[c].n =>
           /\ hist[c].mails = hist[c].n \div 2
           /\ hist[c].mails > 0 => hist[c].temp > 3500
      /\ hist[c].hot = 0 => hist[c].mails = 0

\* C15: when the latest stored observation of a location is read twice, the
\* second time a full polling period (300 seconds) or more after the first,
\* the second one has a strictly larger dt.
C15_NewerAfterEachPeriod ==
  \A i, j \in 1..Len(latest) :
    (/\ i < j
     /\ latest[i].city = latest[j].city
     /\ latest[i].found /\ latest[j].found
     /\ latest[j].at >= latest[i].at + 300)
      => latest[j].doc.dt > latest[i].doc.dt

\* the display temperature and feels_like of the bodies the provider sends:
\* the raw kelvin values less 273.15
DisplayPairs ==
  {<<r - 27315, (r + 100) - 27315>> : r \in RawTemps}

\* C16: every observation a fetch returned (from the provider or from the
\* cache), every cached record and every stored document carries the raw
\* temperature and feels_like less 273.15, taken off exactly once.
C16_ConvertedOnce ==
  /\ \A s \in DOMAIN sweeps :
       sweeps[s].pc = "save" =>
         <<sweeps[s].f.data.temp, sweeps[s].f.data.feels_like>> \in DisplayPairs
  /\ \A c \in CitySet :
       cache[WeatherKey(c)] # NoEntry =>
         <<cache[WeatherKey(c)].val[3], cache[WeatherKey(c)].val[4]>>
           \in DisplayPairs
  /\ \A i \in 1..Len(store) :
       <<store[i].temp, store[i].feels_like>> \in DisplayPairs

\* C16's case: a fetch has returned a cached record while the cache and the
\* collection hold converted records
C16_Witness ==
  /\ \E s \in DOMAIN sweeps : sweeps[s].pc = "save" /\ sweeps[s].f.hit
  /\ \E c \in CitySet : cache[WeatherKey(c)] # NoEntry
  /\ store # <<>>

\* C17: the dominant condition of a non-empty window occurs at least as often
\* as every other condition of the window, and among the conditions that
\* occur most often it is the one found last in the window's order.
C17_MostFrequentLastWins ==
  (summary.status = 200 /\ SummaryWindow # {}) =>
    LET W == SummaryWindow
        occ(v) == Cardinality({i \in W : store[i].main = v})
        top == {i \in W : \A j \in W : occ(store[i].main) >= occ(store[j].main)}
        last == CHOOSE i \in top : \A j \in top : j <= i
    IN /\ \A j \in W : occ(summary.ret.dominantWeather) >= occ(store[j].main)
       /\ summary.ret.dominantWeather = store[last].main

\* C17's case: two conditions of the window occur equally often, and the one
\* returned stands behind the other in the window's order
C17_Witness ==
  /\ summary.status = 200
  /\ LET W == SummaryWindow
         occ(v) == Cardinality({i \in W : store[i].main = v})
     IN \E i, j \in W :
          /\ store[i].main # store[j].main
          /\ occ(store[i].main) = occ(store[j].main)
          /\ store[j].main = summary.ret.dominantWeather
          /\ i < j

\* C18: when the provider call of a fetch fails, the fetch is rejected after
\* that one call, with no cache write, and the step leaves the cache, the
\* collection and every alert count as they were; the loop moves on to the
\* next location.
C18_ProviderFailure ==
  [][\A s \in DOMAIN sweeps :
       (/\ sweeps[s].pc = "provider"
        /\ sweeps'[s] # sweeps[s]
        /\ sweeps'[s].pc \notin {"cacheSet", "hung"}) =>
         /\ sweeps[s].f.calls = 1 /\ sweeps[s].f.writes = 0
         /\ sweeps'[s].idx = sweeps[s].idx + 1
         /\ sweeps'[s].f.calls = 0
         /\ lastRun' = [fetched |-> FALSE, saved |-> FALSE,
                        evaluated |-> FALSE, calls |-> 1]
         /\ cache' = cache /\ store' = store
         /\ alertCounts' = alertCounts /\ hist' = hist]_vars

\* C18's case: a provider call has failed while the collection held a
\* document and a location's count stood at 1
C18_Witness ==
  /\ lastRun.calls = 1 /\ ~lastRun.fetched
  /\ store # <<>>
  /\ \E c \in CitySet : Count(alertCounts, c) = 1

\* C19: between calls every location's count is 0 or 1: it never stays at
\* or grows past the required 2.  (Stated as the claim has it; the code
\* breaks it when the notifier raises, see C10.)
C19_CountBelowRequired ==
  \A c \in DOMAIN alertCounts : alertCounts[c] \in {0, 1}

\* the count a call found: what the previous call for its city left
Before(i) ==
  LET prev == {j \in 1..(i - 1) : alertLog[j].city = alertLog[i].city}
  IN IF prev = {} THEN 0
     ELSE alertLog[CHOOSE j \in prev : \A k \in prev : k <= j].after

\* C20: a call for one location leaves every other location's count as it
\* was, and a reading above 35 of one location directly followed by a reading
\* above 35 of another, each finding a count of 0, emits no Alert for either.
C20_OnlyOwnCounter ==
  /\ [][alertLog' # alertLog =>
          \A c \in CitySet \ {alertLog'[Len(alertLog')].city} :
            /\ (c \in DOMAIN alertCounts') = (c \in DOMAIN alertCounts)
            /\ Count(alertCounts', c) = Count(alertCounts, c)]_vars
  /\ [](\A i \in 1..(Len(alertLog) - 1) :
          (/\ alertLog[i].city # alertLog[i + 1].city
           /\ alertLog[i].temp > 3500 /\ alertLog[i + 1].temp > 3500
           /\ Before(i) = 0 /\ Before(i + 1) = 0)
            => (~alertLog[i].alert /\ ~alertLog[i + 1].alert))

\* C20's case: a reading above 35 of one location directly followed by one of
\* another, both from a count of 0, while a third call met a count of 1 left
\* by the first
C20_Witness ==
  \E i \in 1..(Len(alertLog) - 2) :
    /\ alertLog[i].city # alertLog[i + 1].city
    /\ alertLog[i].temp > 3500 /\ alertLog[i + 1].temp > 3500
    /\ Before(i) = 0 /\ Before(i + 1) = 0
    /\ alertLog[i + 2].city = alertLog[i].city
    /\ alertLog[i + 2].alert

====
